---------------------------- MODULE Spec2Model ----------------------------
(***************************************************************************)
(* A model of crypto-data: the source adapters (Coindesk, Poloniex), the   *)
(* field cleaner (clean_data and DataCleaning), the row projection done in *)
(* each adapter's main(), the fetch helper get_response and the            *)
(* command-line driver main.py.                                            *)
(*                                                                         *)
(* Python values are records [t, s]: t is the type tag and s the value's   *)
(* decimal or literal text as a sequence of one-character strings, so      *)
(* that str(), int(), float(), len() and slicing act on what Python sees.  *)
(***************************************************************************)
EXTENDS Integers, Sequences, FiniteSets, TLC

(***************************************************************************)
(* Bounds of the model.                                                    *)
(***************************************************************************)
\* longest list of raw records handed to clean_data / returned by an API
MaxRecords == 2
\* the 'length' argument configured for check_varchar fields
VarcharLen == 2
\* date arguments are drawn from this many days before and after today
DateWindow == 2
\* check_epoch is called on integers of up to this many decimal digits
MaxDigits == 14
\* check_varchar is called on strings of up to this many characters
MaxStrLen == 4

(***************************************************************************)
(* Python values.                                                          *)
(***************************************************************************)
None == [t |-> "none", s |-> <<>>]
PyIntV(s) == [t |-> "int", s |-> s]
PyFloatV(s) == [t |-> "float", s |-> s]
PyStrV(s) == [t |-> "str", s |-> s]

DigitChars == <<"0", "1", "2", "3", "4", "5", "6", "7", "8", "9">>
IsDigit(c) == \E i \in 1..Len(DigitChars) : DigitChars[i] = c
DigitVal(c) == (CHOOSE i \in 1..Len(DigitChars) : DigitChars[i] = c) - 1

AllDigits(s) == \A i \in 1..Len(s) : IsDigit(s[i])

\* 'if val is not None' in place of 'if val'
Truthy_not_none(v) == v.t # "none"

\* bool(val): the truth value Python gives a scalar
Truthy(v) ==
    CASE v.t = "none" -> FALSE
      [] v.t = "str" -> v.s # <<>>
      [] v.t = "int" -> v.s # <<"0">>
      [] v.t = "float" -> v.s \notin {<<"0", ".", "0">>, <<"-", "0", ".", "0">>}

\* str(val)
PyStr(v) == IF v.t = "none" THEN <<"N", "o", "n", "e">> ELSE v.s

RECURSIVE LStrip(_, _)
LStrip(s, c) == IF s # <<>> /\ Head(s) = c THEN LStrip(Tail(s), c) ELSE s

RECURSIVE RStrip(_, _)
RStrip(s, c) ==
    IF s # <<>> /\ s[Len(s)] = c THEN RStrip(SubSeq(s, 1, Len(s) - 1), c) ELSE s

\* str.strip(): whitespace is dropped by int() and float() before parsing
Strip(s) == RStrip(LStrip(s, " "), " ")

IndexOf(s, c) ==
    IF \E i \in 1..Len(s) : s[i] = c
    THEN CHOOSE i \in 1..Len(s) : s[i] = c /\ \A j \in 1..(i - 1) : s[j] # c
    ELSE 0

\* the digits of an integer literal without its leading zeros
CanonDigits(d) == LET z == LStrip(d, "0") IN IF z = <<>> THEN <<"0">> ELSE z

\* int(text): [ok, v]; ok is FALSE where Python raises ValueError
ParseIntText(s) ==
    LET t == Strip(s)
        signed == t # <<>> /\ Head(t) \in {"+", "-"}
        body == IF signed THEN Tail(t) ELSE t
        mag == CanonDigits(body)
        neg == signed /\ Head(t) = "-" /\ mag # <<"0">>
    IN  IF body # <<>> /\ AllDigits(body)
        THEN [ok |-> TRUE, v |-> PyIntV(IF neg THEN <<"-">> \o mag ELSE mag)]
        ELSE [ok |-> FALSE, v |-> None]

\* float(text): [ok, v]; decimal literals only (no exponent, inf or nan)
ParseFloatText(s) ==
    LET t == Strip(s)
        signed == t # <<>> /\ Head(t) \in {"+", "-"}
        body == IF signed THEN Tail(t) ELSE t
        dot == IndexOf(body, ".")
        ip == IF dot = 0 THEN body ELSE SubSeq(body, 1, dot - 1)
        fp == IF dot = 0 THEN <<>> ELSE SubSeq(body, dot + 1, Len(body))
        fz == RStrip(fp, "0")
        text == CanonDigits(ip) \o <<".">> \o (IF fz = <<>> THEN <<"0">> ELSE fz)
        neg == signed /\ Head(t) = "-"
    IN  IF AllDigits(ip) /\ AllDigits(fp) /\ Len(ip) + Len(fp) > 0
        THEN [ok |-> TRUE, v |-> PyFloatV(IF neg THEN <<"-">> \o text ELSE text)]
        ELSE [ok |-> FALSE, v |-> None]

\* int(val): truncation toward zero for a float, parsing for a string,
\* TypeError for None
PyInt(v) ==
    CASE v.t = "int" -> [ok |-> TRUE, v |-> v]
      [] v.t = "float" ->
            LET ip == SubSeq(v.s, 1, IndexOf(v.s, ".") - 1)
            IN  [ok |-> TRUE, v |-> PyIntV(IF ip = <<"-", "0">> THEN <<"0">> ELSE ip)]
      [] v.t = "str" -> ParseIntText(v.s)
      [] v.t = "none" -> [ok |-> FALSE, v |-> None]

\* float(val)
PyFloat(v) ==
    CASE v.t = "float" -> [ok |-> TRUE, v |-> v]
      [] v.t = "int" -> [ok |-> TRUE, v |-> PyFloatV(v.s \o <<".", "0">>)]
      [] v.t = "str" -> ParseFloatText(v.s)
      [] v.t = "none" -> [ok |-> FALSE, v |-> None]

\* str.replace('\\', '')
RECURSIVE StripBackslashes(_)
StripBackslashes(s) ==
    IF s = <<>> THEN <<>>
    ELSE IF Head(s) = "\\" THEN StripBackslashes(Tail(s))
    ELSE <<Head(s)>> \o StripBackslashes(Tail(s))

\* s[0:n] for n >= 0
Slice0(s, n) == SubSeq(s, 1, IF n < Len(s) THEN n ELSE Len(s))

\* F applied to the value of e, which is computed once (a local variable)
With(e, F(_)) == CHOOSE y \in {F(x) : x \in {e}} : TRUE

(***************************************************************************)
(* The proleptic Gregorian calendar of datetime and time: a day is counted *)
(* from 1970-01-01 (day 0).                                                *)
(***************************************************************************)
IsLeap(y) == (y % 4 = 0 /\ y % 100 # 0) \/ y % 400 = 0

DaysInMonth(y, m) ==
    IF m = 2 THEN (IF IsLeap(y) THEN 29 ELSE 28)
    ELSE IF m \in {4, 6, 9, 11} THEN 30 ELSE 31

DaysFromCivil(y, m, d) ==
    LET yy == IF m <= 2 THEN y - 1 ELSE y
        era == yy \div 400
        yoe == yy - era * 400
        mp == IF m > 2 THEN m - 3 ELSE m + 9
        doy == (153 * mp + 2) \div 5 + d - 1
        doe == yoe * 365 + yoe \div 4 - yoe \div 100 + doy
    IN  era * 146097 + doe - 719468

CivilFromDays(z) ==
    LET zz == z + 719468
        era == zz \div 146097
        doe == zz - era * 146097
        yoe == (doe - doe \div 1460 + doe \div 36524 - doe \div 146096) \div 365
        doy == doe - (365 * yoe + yoe \div 4 - yoe \div 100)
        mp == (5 * doy + 2) \div 153
        d == doy - (153 * mp + 2) \div 5 + 1
        m == IF mp < 10 THEN mp + 3 ELSE mp - 9
        y == yoe + era * 400 + (IF m <= 2 THEN 1 ELSE 0)
    IN  <<y, m, d>>

\* n as w decimal digits, zero padded (%Y, %m, %d, %H, %M of strftime)
RECURSIVE Pad(_, _)
Pad(n, w) == IF w = 0 THEN <<>> ELSE Pad(n \div 10, w - 1) \o <<DigitChars[(n % 10) + 1]>>

\* divmod of a digit string by 86400: the value itself may exceed a machine int
RECURSIVE DivModDay(_, _, _)
DivModDay(d, q, r) ==
    IF d = <<>> THEN [q |-> q, r |-> r]
    ELSE LET x == r * 10 + DigitVal(Head(d))
         IN  DivModDay(Tail(d), q * 10 + x \div 86400, x % 86400)

\* time.strftime('%Y-%m-%d %H:%M', time.gmtime(timestamp)) of an int value
FormatEpoch(ts) ==
    LET neg == Head(ts.s) = "-"
        qr == DivModDay(IF neg THEN Tail(ts.s) ELSE ts.s, 0, 0)
        day == IF ~neg THEN qr.q ELSE IF qr.r = 0 THEN -qr.q ELSE -qr.q - 1
        sec == IF ~neg \/ qr.r = 0 THEN qr.r ELSE 86400 - qr.r
        ymd == CivilFromDays(day)
    IN  PyStrV(Pad(ymd[1], 4) \o <<"-">> \o Pad(ymd[2], 2) \o <<"-">> \o Pad(ymd[3], 2)
               \o <<" ">> \o Pad(sec \div 3600, 2) \o <<":">> \o Pad((sec % 3600) \div 60, 2))

(***************************************************************************)
(* DataCleaning: the six cleaning functions.  args is <<>> when the field  *)
(* configures no 'args' (Python None) and <<n>> for {'length': n}.         *)
(***************************************************************************)
\* check_int handing the value back when int() fails
check_int_keeps(val, args) ==
    IF val.t = "int" THEN val
    ELSE LET r == PyInt(val) IN IF r.ok THEN r.v ELSE val

check_int(val, args) ==
    IF val.t = "int" THEN val
    ELSE LET r == PyInt(val) IN IF r.ok THEN r.v ELSE None

check_float(val, args) ==
    IF val.t = "float" THEN val
    ELSE LET r == PyFloat(val) IN IF r.ok THEN r.v ELSE None

\* truncation first, then the backslashes of what is left are removed;
\* args None raises TypeError inside the try, which yields None
check_varchar(val, args) ==
    IF args = <<>> THEN None
    ELSE PyStrV(StripBackslashes(Slice0(PyStr(val), args[1])))

check_text(val, args) == PyStrV(StripBackslashes(PyStr(val)))

do_none(val, args) == val

check_epoch(val, args) ==
    LET r == IF val.t = "int" THEN [ok |-> TRUE, v |-> val] ELSE PyInt(val)
        n == Len(r.v.s)
    IN  IF ~r.ok THEN None
        ELSE IF n = 13 THEN FormatEpoch(PyIntV(SubSeq(r.v.s, 1, 10)))
        ELSE IF n # 10 THEN None
        ELSE FormatEpoch(r.v)

SupportedFuncs ==
    {"check_int", "check_float", "check_varchar", "check_text", "do_none", "check_epoch"}

\* getattr(DataCleaning, func)(val=val, args=args): [raised, v]
CallCleaningFunc(func, val, args) ==
    CASE func = "check_int" -> [raised |-> "none", v |-> check_int(val, args)]
      [] func = "check_float" -> [raised |-> "none", v |-> check_float(val, args)]
      [] func = "check_varchar" -> [raised |-> "none", v |-> check_varchar(val, args)]
      [] func = "check_text" -> [raised |-> "none", v |-> check_text(val, args)]
      [] func = "do_none" -> [raised |-> "none", v |-> do_none(val, args)]
      [] func = "check_epoch" -> [raised |-> "none", v |-> check_epoch(val, args)]
      [] func = "check_date" -> [raised |-> "KeyError", v |-> None]
      [] OTHER -> [raised |-> "AttributeError", v |-> None]

(***************************************************************************)
(* Parsed response data.  A parsed body is [k, items, error, bpi]: k is    *)
(* the Python type ("list", "dict", "str", "num"), items what iterating it *)
(* yields, error whether a dict holds the key 'error', and bpi is <<>>     *)
(* when there is no key 'bpi' and <<rows>> when a dict holds it.  An       *)
(* element is [dict, m]: a dict with mapping m, or something that has no   *)
(* .get (the keys of a dict, the characters of a string, a number in a     *)
(* list).                                                                  *)
(***************************************************************************)
ListData(items) == [k |-> "list", items |-> items, error |-> FALSE, bpi |-> <<>>]
DictElem(m) == [dict |-> TRUE, m |-> m]
NonDictElem == [dict |-> FALSE, m |-> <<>>]

\* record.get(var, None)
Get(m, var) == IF var \in DOMAIN m THEN m[var] ELSE None

FieldNames(fields) == {fields[i].name : i \in 1..Len(fields)}

\* lines 75-82 of clean_data: the loop over all_fields from field i on.
\* [raised, rec, calls]; calls lists the cleaning functions invoked.
RECURSIVE CleanFields(_, _, _, _, _)
CleanFields(record, fields, i, acc, calls) ==
    IF i > Len(fields) THEN [raised |-> "none", rec |-> acc, calls |-> calls]
    ELSE With(Get(record, fields[i].name), LAMBDA val :
         IF Truthy(val)
         THEN With(CallCleaningFunc(fields[i].cleaning_func, val, fields[i].args), LAMBDA r :
              IF r.raised # "none"
              THEN [raised |-> r.raised, rec |-> acc, calls |-> calls]
              ELSE CleanFields(record, fields, i + 1,
                               [acc EXCEPT ![fields[i].name] = r.v],
                               Append(calls, <<fields[i].name, fields[i].cleaning_func>>)))
         ELSE CleanFields(record, fields, i + 1,
                          [acc EXCEPT ![fields[i].name] = None], calls))

\* lines 71-84 of clean_data: the loop over data from element i on.
\* calls gets one <<record index, field, function>> per invocation.
RECURSIVE CleanRecords(_, _, _, _, _)
CleanRecords(items, fields, i, out, calls) ==
    IF i > Len(items) THEN [raised |-> "none", out |-> out, calls |-> calls]
    ELSE IF fields # <<>> /\ ~items[i].dict
    THEN [raised |-> "AttributeError", out |-> out, calls |-> calls]
    ELSE With(CleanFields(items[i].m, fields, 1,
                          [key \in FieldNames(fields) |-> None], <<>>), LAMBDA r :
         With(calls \o [j \in 1..Len(r.calls) |-> <<i>> \o r.calls[j]], LAMBDA all :
         IF r.raised # "none"
         THEN [raised |-> r.raised, out |-> out, calls |-> all]
         ELSE With(Append(out, r.rec), LAMBDA done :
              CleanRecords(items, fields, i + 1, done, all))))

\* clean_data(data, fields): [raised, out, calls]; len(data) of the
\* log line raises TypeError for a number
clean_data(d, fields) ==
    IF d.k = "num" THEN [raised |-> "TypeError", out |-> <<>>, calls |-> <<>>]
    ELSE CleanRecords(d.items, fields, 1, <<>>, <<>>)

(***************************************************************************)
(* Dates.  A date argument is [k, f]: k = "none" (None), "int" (not a      *)
(* string) or "str", whose text has the '-'-separated numbers f: <<>> is   *)
(* '', <<y, m, d>> is 'y-m-d'.  After Poloniex._convert_dates a date is    *)
(* [k |-> "int", f |-> <<epoch>>].  The clock today_dt is [day, tod,       *)
(* utcoff]: the local day, the seconds since its midnight and the local    *)
(* zone's offset from UTC.                                                 *)
(***************************************************************************)
NoneDate == [k |-> "none", f |-> <<>>]
StrDate(f) == [k |-> "str", f |-> f]
IntDate(n) == [k |-> "int", f |-> <<n>>]
\* a date string written without zero padding, such as '2016-2-5': strptime
\* reads it as it reads '2016-02-05', and the text is not what strftime writes
UnpaddedDate(f) == [k |-> "str", f |-> f, unpadded |-> TRUE]

\* whether datetime.strptime(text, '%Y-%m-%d') parses (else ValueError)
StrptimeOk(f) ==
    /\ Len(f) = 3
    /\ f[1] \in 1..9999
    /\ f[2] \in 1..12
    /\ f[3] \in 1..DaysInMonth(f[1], f[2])

\* the day of datetime.strptime(text, '%Y-%m-%d'), at midnight
Strptime(f) == DaysFromCivil(f[1], f[2], f[3])

\* day.strftime('%Y-%m-%d')
Strftime(day) == StrDate(CivilFromDays(day))

\* DataCleaning.check_date
check_date(date_text) == date_text.k = "str" /\ StrptimeOk(date_text.f)

\* datetime.strptime(date) > today_dt: midnight of date against now
LaterThanNow(date, now) ==
    \/ Strptime(date.f) > now.day
    \/ Strptime(date.f) = now.day /\ 0 > now.tod

\* Coindesk._validate_dates without the two elif branches
Coindesk_validate_dates_unclamped(start_date, end_date, today_dt) ==
    <<IF start_date.k = "none" \/ check_date(start_date) = FALSE
      THEN Strftime(today_dt.day - 1) ELSE start_date,
      IF end_date.k = "none" \/ check_date(end_date) = FALSE
      THEN Strftime(today_dt.day) ELSE end_date>>

\* Coindesk._validate_dates: <<start_date, end_date>>
Coindesk_validate_dates(start_date, end_date, today_dt) ==
    LET today == Strftime(today_dt.day)
        yest == Strftime(today_dt.day - 1)
        start_dt_check == check_date(start_date)
        end_dt_check == check_date(end_date)
        s == IF start_date.k = "none" \/ start_dt_check = FALSE THEN yest
             ELSE IF LaterThanNow(start_date, today_dt) THEN yest
             ELSE start_date
        e == IF end_date.k = "none" \/ end_dt_check = FALSE THEN today
             ELSE IF LaterThanNow(end_date, today_dt) THEN today
             ELSE end_date
    IN  <<s, e>>

\* Poloniex._validate_dates: <<start_date, end_date>>
Poloniex_validate_dates(start_date, end_date, today_dt) ==
    LET today == Strftime(today_dt.day)
        yest == Strftime(today_dt.day - 1)
        start_dt_check == check_date(start_date)
        end_dt_check == check_date(end_date)
        s == IF start_date.k = "none" \/ start_dt_check = FALSE THEN yest
             ELSE IF LaterThanNow(start_date, today_dt) THEN yest
             ELSE start_date
        e == IF end_date.k = "none" \/ end_dt_check = FALSE THEN today
             ELSE IF LaterThanNow(end_date, today_dt) THEN today
             ELSE end_date
    IN  <<s, e>>

\* convert_to_epoch: int(time.mktime(time.strptime(date, date_format)))
convert_to_epoch(date, today_dt) == IntDate(Strptime(date.f) * 86400 - today_dt.utcoff)

(***************************************************************************)
(* Tickers.  A ticker string is the sequence of its '_'-separated          *)
(* segments: 'BTC_ETH' is <<"BTC", "ETH">>, 'USD' is <<"USD">>.            *)
(***************************************************************************)
Coindesk_tickers == {<<"USD">>, <<"ETH">>}
Coindesk_default_ticker == <<"USD">>

\* Coindesk._validate_ticker without the default
Coindesk_validate_ticker_keeps(ticker) == ticker

\* Coindesk._validate_ticker: the ticker kept
Coindesk_validate_ticker(ticker) ==
    IF ticker \notin Coindesk_tickers THEN Coindesk_default_ticker ELSE ticker

\* Poloniex._validate_ticker without the check of the quote ticker
Poloniex_validate_ticker_base_only(ticker, config) ==
    IF Len(ticker) < 2 THEN "Exception"
    ELSE IF ~config.present THEN "TypeError"
    ELSE IF ticker[1] \notin DOMAIN config.tickers THEN "Exception"
    ELSE "none"

\* Poloniex._validate_ticker: the exception raised, or "none"
Poloniex_validate_ticker(ticker, config) ==
    IF Len(ticker) < 2 THEN "Exception"
    ELSE LET base_ticker == ticker[1]
             quote_ticker == ticker[2]
         IN  IF ~config.present THEN "TypeError"
             ELSE IF base_ticker \notin DOMAIN config.tickers THEN "Exception"
             ELSE IF quote_ticker \notin config.tickers[base_ticker] THEN "Exception"
             ELSE "none"

\* the text of a ticker, segments joined by '_'
RECURSIVE JoinTicker(_)
JoinTicker(ticker) ==
    IF Len(ticker) <= 1 THEN ticker
    ELSE <<Head(ticker), "_">> \o JoinTicker(Tail(ticker))

(***************************************************************************)
(* Configuration.  CONFIG maps a source name to [tickers, fields]; fields  *)
(* is the ordered field mapping, a sequence of [name, cleaning_func, args, *)
(* mapped_name] with distinct names.  self.config = CONFIG.get(source,     *)
(* None) is [present, tickers, fields].                                    *)
(***************************************************************************)
NoConfig == [present |-> FALSE, tickers |-> <<>>, fields |-> <<>>]

ConfigGet(cfg, source) ==
    IF source \in DOMAIN cfg
    THEN [present |-> TRUE, tickers |-> cfg[source].tickers, fields |-> cfg[source].fields]
    ELSE NoConfig

(***************************************************************************)
(* Adapters.  An adapter object is [cls, source, config, ticker,           *)
(* start_date, end_date, period, url].                                     *)
(***************************************************************************)
NoUrl == [base |-> "none", args |-> <<>>]

NoAdapter ==
    [cls |-> "none", source |-> "none", config |-> NoConfig, ticker |-> <<>>,
     start_date |-> NoneDate, end_date |-> NoneDate, period |-> 0, url |-> NoUrl]

\* Coindesk._build_url
Coindesk_build_url(ticker, start_date, end_date) ==
    [base |-> "https://api.coindesk.com/charts/data", args |-> <<ticker, start_date, end_date>>]

\* Poloniex._build_url
Poloniex_build_url(ticker, start_date, end_date, period) ==
    [base |-> "https://poloniex.com/public?command=returnChartData",
     args |-> <<ticker, start_date, end_date, IntDate(period)>>]

\* Coindesk.__init__: [raised, obj]
Coindesk_init(cfg, ticker, start_date, end_date, today_dt) ==
    LET config == ConfigGet(cfg, "coindesk")
        dates == Coindesk_validate_dates(start_date, end_date, today_dt)
        tk == Coindesk_validate_ticker(ticker)
    IN  [raised |-> "none",
         obj |-> [cls |-> "Coindesk", source |-> "coindesk", config |-> config,
                  ticker |-> tk, start_date |-> dates[1], end_date |-> dates[2],
                  period |-> 0, url |-> Coindesk_build_url(tk, dates[1], dates[2])]]

\* Poloniex.__init__: [raised, obj]; obj is the object as the exception
\* left it, which no caller receives
Poloniex_init(cfg, ticker_pair, start_date, end_date, period, today_dt) ==
    LET config == ConfigGet(cfg, "poloniex")
        dates == Poloniex_validate_dates(start_date, end_date, today_dt)
        s == convert_to_epoch(dates[1], today_dt)
        e == convert_to_epoch(dates[2], today_dt)
        err == Poloniex_validate_ticker(ticker_pair, config)
        obj == [cls |-> "Poloniex", source |-> "poloniex", config |-> config,
                ticker |-> ticker_pair, start_date |-> s, end_date |-> e,
                period |-> period, url |-> NoUrl]
    IN  IF err # "none" THEN [raised |-> err, obj |-> obj]
        ELSE [raised |-> "none",
              obj |-> [obj EXCEPT !.url = Poloniex_build_url(ticker_pair, s, e, period)]]

(***************************************************************************)
(* HTTP fetch.  What requests.get does is [kind, status, body]: kind =     *)
(* "exception" (transport error) or "response".  A body is [envelope, wf,  *)
(* pylit, null, d]: whether the text is wrapped as cb(...); , whether the  *)
(* text inside is well-formed JSON, whether that text is also a Python     *)
(* expression eval() accepts, whether it is the JSON null, and the value d *)
(* it denotes.                                                             *)
(***************************************************************************)
NoBody ==
    [envelope |-> FALSE, wf |-> FALSE, pylit |-> FALSE, null |-> FALSE, d |-> ListData(<<>>)]

NoResp == [none |-> TRUE, status |-> 0, body |-> NoBody]

\* get_response without 'resp = None' for a status other than 200
get_response_keeps_resp(outcome) ==
    IF outcome.kind = "exception" THEN NoResp
    ELSE [none |-> FALSE, status |-> outcome.status, body |-> outcome.body]

\* get_response: the Response, or None for an exception or a status other
\* than 200 (there resp is set to None and the log line's resp.status_code
\* raises AttributeError, which the except clause catches)
get_response(outcome) ==
    IF outcome.kind = "exception" THEN NoResp
    ELSE IF outcome.status # 200 THEN NoResp
    ELSE [none |-> FALSE, status |-> outcome.status, body |-> outcome.body]

NoData == [none |-> TRUE, d |-> ListData(<<>>)]

\* Coindesk._parse_response: eval of the text without 'cb(' and ');', then
\* a {'timestamp', 'price'} dict per element of raw_data['bpi']; any
\* exception gives None
Coindesk_parse_response(resp) ==
    LET b == resp.body
        ok == /\ b.pylit
              /\ b.d.k = "dict"
              /\ b.d.bpi # <<>>
              /\ \A j \in 1..Len(b.d.bpi[1]) : Len(b.d.bpi[1][j]) >= 2
    IN  IF ~ok THEN NoData
        ELSE [none |-> FALSE,
              d |-> ListData([j \in 1..Len(b.d.bpi[1]) |->
                       DictElem(("timestamp" :> b.d.bpi[1][j][1])
                                @@ ("price" :> b.d.bpi[1][j][2]))])]

\* Poloniex._parse_response taking an empty list for no data
Poloniex_parse_response_falsy(resp) ==
    LET b == resp.body
    IN  IF b.envelope \/ ~b.wf \/ b.null \/ (b.d.k = "list" /\ b.d.items = <<>>) THEN NoData
        ELSE [none |-> FALSE, d |-> b.d]

\* Poloniex._parse_response: resp.json(), None when it raises
Poloniex_parse_response(resp) ==
    LET b == resp.body
    IN  IF b.envelope \/ ~b.wf \/ b.null THEN NoData
        ELSE [none |-> FALSE, d |-> b.d]

(***************************************************************************)
(* Row projection, the tail of both main() methods.                        *)
(***************************************************************************)
\* the keys of field_map = {d['mapped_name']: key for key, d in items}:
\* each mapped name once, at the place of its first occurrence
RECURSIVE TableFields(_, _)
TableFields(fields, i) ==
    IF i > Len(fields) THEN <<>>
    ELSE IF \E j \in 1..(i - 1) : fields[j].mapped_name = fields[i].mapped_name
    THEN TableFields(fields, i + 1)
    ELSE <<fields[i].mapped_name>> \o TableFields(fields, i + 1)

\* field_map[key]: the last field configured with that mapped name
FieldMap(fields, key) ==
    LET last == CHOOSE i \in 1..Len(fields) :
                    /\ fields[i].mapped_name = key
                    /\ \A j \in (i + 1)..Len(fields) : fields[j].mapped_name # key
    IN  fields[last].name

\* the projection appending [self.source, self.ticker]
ProjectRows_swapped(cleaned, fields, ticker, source) ==
    [none |-> FALSE,
     fields |-> TableFields(fields, 1) \o <<"ticker", "data_source">>,
     data |-> [r \in 1..Len(cleaned) |->
                 [k \in 1..Len(TableFields(fields, 1)) |->
                     cleaned[r][FieldMap(fields, TableFields(fields, 1)[k])]]
                 \o <<PyStrV(<<source>>), PyStrV(JoinTicker(ticker))>>]]

\* the ResultSet {'fields': table_fields, 'data': injection_data}
ProjectRows(cleaned, fields, ticker, source) ==
    LET table_fields == TableFields(fields, 1)
        injection_data ==
            [r \in 1..Len(cleaned) |->
                [k \in 1..Len(table_fields) |-> cleaned[r][FieldMap(fields, table_fields[k])]]
                \o <<PyStrV(JoinTicker(ticker)), PyStrV(<<source>>)>>]
    IN  [none |-> FALSE,
         fields |-> table_fields \o <<"ticker", "data_source">>,
         data |-> injection_data]

NoResult == [none |-> TRUE, fields |-> <<>>, data |-> <<>>]
NotCleaned == [called |-> FALSE, raised |-> "none", out |-> <<>>, calls |-> <<>>]
Called(r) == [called |-> TRUE, raised |-> r.raised, out |-> r.out, calls |-> r.calls]

MainReturn(raised, results, resp, data, flds, cleaned) ==
    [raised |-> raised, results |-> results, resp |-> resp, data |-> data,
     fields |-> flds, cleaned |-> cleaned]

\* Coindesk.main: [raised, results, resp, data, fields, cleaned]
Coindesk_main(obj, outcome) ==
    With(get_response(outcome), LAMBDA rsp :
    IF rsp.none THEN MainReturn("none", NoResult, rsp, NoData, <<>>, NotCleaned)
    ELSE With(Coindesk_parse_response(rsp), LAMBDA dat :
    IF dat.none THEN MainReturn("none", NoResult, rsp, NoData, <<>>, NotCleaned)
    ELSE IF ~obj.config.present
    THEN MainReturn("TypeError", NoResult, rsp, dat, <<>>, NotCleaned)
    ELSE With(clean_data(dat.d, obj.config.fields), LAMBDA r :
    IF r.raised # "none"
    THEN MainReturn(r.raised, NoResult, rsp, dat, obj.config.fields, Called(r))
    ELSE MainReturn("none",
                    ProjectRows(r.out, obj.config.fields, obj.ticker, obj.source),
                    rsp, dat, obj.config.fields, Called(r)))))

\* Poloniex.main: [raised, results, resp, data, fields, cleaned]
Poloniex_main(obj, outcome) ==
    With(get_response(outcome), LAMBDA rsp :
    IF rsp.none THEN MainReturn("none", NoResult, rsp, NoData, <<>>, NotCleaned)
    ELSE With(Poloniex_parse_response(rsp), LAMBDA dat :
    IF dat.none THEN MainReturn("none", NoResult, rsp, NoData, <<>>, NotCleaned)
    ELSE IF dat.d.k = "dict" /\ dat.d.error
    THEN MainReturn("none", NoResult, rsp, dat, <<>>, NotCleaned)
    ELSE IF ~obj.config.present
    THEN MainReturn("TypeError", NoResult, rsp, dat, <<>>, NotCleaned)
    ELSE With(clean_data(dat.d, obj.config.fields), LAMBDA r :
    IF r.raised # "none"
    THEN MainReturn(r.raised, NoResult, rsp, dat, obj.config.fields, Called(r))
    ELSE MainReturn("none",
                    ProjectRows(r.out, obj.config.fields, obj.ticker, obj.source),
                    rsp, dat, obj.config.fields, Called(r)))))

\* crypto.main() of whichever adapter the driver built
AdapterMain(obj, outcome) ==
    IF obj.cls = "Coindesk" THEN Coindesk_main(obj, outcome) ELSE Poloniex_main(obj, outcome)

(***************************************************************************)
(* The inputs the model draws from.                                        *)
(***************************************************************************)
SeqsUpTo(S, n) == UNION {[1..k -> S] : k \in 0..n}

Chars10 == <<"1", "5", "0", "0", "0", "0", "0", "0", "0", "0">>
Epoch10 == PyIntV(Chars10)
Epoch13 == PyIntV(Chars10 \o <<"1", "2", "3">>)
Float145 == PyFloatV(<<"1", "4", ".", "5">>)

Field(name, func, args, mapped) ==
    [name |-> name, cleaning_func |-> func, args |-> args, mapped_name |-> mapped]

CoindeskFields ==
    <<Field("timestamp", "check_epoch", <<>>, "snap_time"),
      Field("price", "check_float", <<>>, "close")>>

PoloniexFields ==
    <<Field("date", "check_epoch", <<>>, "snap_time"),
      Field("close", "check_float", <<>>, "close"),
      Field("volume", "check_varchar", <<VarcharLen>>, "volume")>>

PoloniexTickers == ("BTC" :> {"ETH", "LTC"}) @@ ("ETH" :> {"LTC"})

Source(fields) == [tickers |-> PoloniexTickers, fields |-> fields]

\* the same mapped name configured for two fields
DupFields(fields) == [i \in 1..Len(fields) |-> [fields[i] EXCEPT !.mapped_name = "close"]]

\* a cleaning function DataCleaning does not have, on the last field
BogusFields(fields) ==
    [i \in 1..Len(fields) |->
        IF i = Len(fields) THEN [fields[i] EXCEPT !.cleaning_func = "check_bogus"]
        ELSE fields[i]]

Configs ==
    { ("coindesk" :> Source(CoindeskFields)) @@ ("poloniex" :> Source(PoloniexFields)),
      ("poloniex" :> Source(PoloniexFields)),
      ("coindesk" :> Source(CoindeskFields)),
      ("coindesk" :> Source(DupFields(CoindeskFields)))
          @@ ("poloniex" :> Source(DupFields(PoloniexFields))),
      ("coindesk" :> Source(BogusFields(CoindeskFields)))
          @@ ("poloniex" :> Source(BogusFields(PoloniexFields))) }

Clock(y, m, d, tod, utcoff) ==
    [day |-> DaysFromCivil(y, m, d), tod |-> tod, utcoff |-> utcoff]

Todays == {Clock(2017, 3, 1, 36000, 0), Clock(2016, 1, 1, 0, -18000)}

CoindeskTickerArgs == {<<"USD">>, <<"ETH">>, <<"GBP">>, <<"">>, <<"BTC", "ETH">>}

PoloniexTickerArgs ==
    {<<"BTC", "ETH">>, <<"BTC", "XYZ">>, <<"XYZ", "ETH">>, <<"ETH", "LTC">>,
     <<"ETH", "ETH">>, <<"BTCETH">>, <<"">>, <<"BTC", "ETH", "XYZ">>}

DatePairs ==
    { <<NoneDate, NoneDate>>,
      <<StrDate(<<2015, 6, 30>>), NoneDate>>,
      <<StrDate(<<2099, 1, 1>>), StrDate(<<2015, 6, 30>>)>>,
      <<StrDate(<<>>), StrDate(<<>>)>> }

PoloniexRecords ==
    { DictElem(("date" :> Epoch10) @@ ("close" :> Float145)),
      DictElem(("date" :> Epoch13) @@ ("close" :> PyStrV(<<"1", ".", "5">>))
               @@ ("volume" :> PyStrV(<<"a", "\\", "b", "c">>)) @@ ("high" :> Float145)),
      DictElem(("close" :> PyIntV(<<"0">>)) @@ ("volume" :> PyIntV(<<"7">>))) }

CoindeskRows ==
    { <<Epoch13, Float145>>,
      <<Epoch10, PyStrV(<<"a", "b", "c">>)>>,
      <<PyIntV(<<"0">>), None, Float145>>,
      <<Epoch10>> }

JsonBody(d) == [envelope |-> FALSE, wf |-> TRUE, pylit |-> TRUE, null |-> FALSE, d |-> d]
CallbackBody(d) == [envelope |-> TRUE, wf |-> TRUE, pylit |-> TRUE, null |-> FALSE, d |-> d]
BpiData(rows) ==
    [k |-> "dict", items |-> <<NonDictElem>>, error |-> FALSE, bpi |-> <<rows>>]
ErrorData == [k |-> "dict", items |-> <<NonDictElem>>, error |-> TRUE, bpi |-> <<>>]
OtherDict == [k |-> "dict", items |-> <<NonDictElem>>, error |-> FALSE, bpi |-> <<>>]
EmptyDict == [k |-> "dict", items |-> <<>>, error |-> FALSE, bpi |-> <<>>]
NumData == [k |-> "num", items |-> <<>>, error |-> FALSE, bpi |-> <<>>]
StrData == [k |-> "str", items |-> <<NonDictElem>>, error |-> FALSE, bpi |-> <<>>]

NullBody == [envelope |-> FALSE, wf |-> TRUE, pylit |-> FALSE, null |-> TRUE, d |-> ListData(<<>>)]
\* a bpi payload with the JSON literal true in it: eval raises NameError
JsonOnlyBody ==
    [envelope |-> TRUE, wf |-> TRUE, pylit |-> FALSE, null |-> FALSE, d |-> BpiData(<<>>)]

RecordListBodies == {JsonBody(ListData(s)) : s \in SeqsUpTo(PoloniexRecords, MaxRecords)}

BpiBodies ==
    {JsonBody(BpiData(s)) : s \in SeqsUpTo(CoindeskRows, MaxRecords)}
    \cup {CallbackBody(BpiData(s)) : s \in SeqsUpTo(CoindeskRows, MaxRecords)}

\* bodies that are not a list of records
OddBodies ==
    { NoBody, NullBody, JsonOnlyBody, JsonBody(ErrorData), JsonBody(OtherDict),
      JsonBody(EmptyDict), JsonBody(NumData), JsonBody(StrData),
      JsonBody(ListData(<<NonDictElem>>)) }

Bodies == RecordListBodies \cup BpiBodies \cup OddBodies

NoOutcome == [kind |-> "none", status |-> 0, body |-> NoBody]

FailedOutcomes ==
    { [kind |-> "exception", status |-> 0, body |-> NoBody],
      [kind |-> "response", status |-> 500, body |-> NoBody],
      [kind |-> "response", status |-> 404,
       body |-> JsonBody(ListData(<<CHOOSE e \in PoloniexRecords : "date" \in DOMAIN e.m>>))],
      [kind |-> "response", status |-> 503,
       body |-> CallbackBody(BpiData(<<<<Epoch10, Float145>>>>))] }

Outcomes ==
    FailedOutcomes \cup {[kind |-> "response", status |-> 200, body |-> b] : b \in Bodies}

(***************************************************************************)
(* State.                                                                  *)
(***************************************************************************)
VARIABLES
    CONFIG,        \* the configuration read_yaml loaded at import
    today_dt,      \* the clock
    pc,            \* where the driver (or the function under check) stands
    args,          \* the arguments the caller gave the constructor
    self,          \* the adapter object as its constructor left it
    crypto,        \* main.py's crypto: the adapter, once construction returned
    fetched,       \* what requests.get did inside main()
    resp,          \* main()'s resp
    data,          \* main()'s data: the parsed records
    fields,        \* the field mapping handed to clean_data
    cleaned_data,  \* clean_data's return value and the functions it invoked
    results,       \* main.py's results, or what a cleaning function returned
    exc,           \* the exception that ended the run, "none" otherwise
    loads          \* the calls of postgrez.load

vars ==
    <<CONFIG, today_dt, pc, args, self, crypto, fetched, resp, data, fields,
      cleaned_data, results, exc, loads>>

NoArgs == [source |-> "none", ticker |-> <<>>, start_date |-> NoneDate, end_date |-> NoneDate]

Blank ==
    /\ args = NoArgs
    /\ self = NoAdapter
    /\ crypto = NoAdapter
    /\ fetched = NoOutcome
    /\ resp = NoResp
    /\ data = NoData
    /\ fields = <<>>
    /\ cleaned_data = NotCleaned
    /\ results = NoResult
    /\ exc = "none"
    /\ loads = <<>>

Init ==
    /\ CONFIG \in Configs
    /\ today_dt \in Todays
    /\ pc = "start"
    /\ Blank

\* main.py line 35: crypto = Coindesk(args.ticker, args.start, args.end)
NewCoindesk ==
    /\ pc = "start"
    /\ \E ticker \in CoindeskTickerArgs, dates \in DatePairs :
          \E r \in {Coindesk_init(CONFIG, ticker, dates[1], dates[2], today_dt)} :
              /\ args' = [source |-> "Coindesk", ticker |-> ticker,
                          start_date |-> dates[1], end_date |-> dates[2]]
              /\ self' = r.obj
              /\ crypto' = r.obj
              /\ pc' = "constructed"
    /\ UNCHANGED <<CONFIG, today_dt, fetched, resp, data, fields, cleaned_data,
                   results, exc, loads>>

\* main.py lines 32-33: crypto = Poloniex(args.ticker, ...)
NewPoloniex ==
    /\ pc = "start"
    /\ \E ticker \in PoloniexTickerArgs, dates \in DatePairs :
          \E r \in {Poloniex_init(CONFIG, ticker, dates[1], dates[2], 1800, today_dt)} :
              /\ args' = [source |-> "Poloniex", ticker |-> ticker,
                          start_date |-> dates[1], end_date |-> dates[2]]
              /\ self' = r.obj
              /\ crypto' = IF r.raised = "none" THEN r.obj ELSE NoAdapter
              /\ exc' = r.raised
              /\ pc' = IF r.raised = "none" THEN "constructed" ELSE "init_raised"
    /\ UNCHANGED <<CONFIG, today_dt, fetched, resp, data, fields, cleaned_data,
                   results, loads>>

\* main.py line 37: results = crypto.main()
RunMain ==
    /\ pc = "constructed"
    /\ \E outcome \in Outcomes :
          \E r \in {AdapterMain(crypto, outcome)} :
              /\ fetched' = outcome
              /\ resp' = r.resp
              /\ data' = r.data
              /\ fields' = r.fields
              /\ cleaned_data' = r.cleaned
              /\ results' = r.results
              /\ exc' = r.raised
              /\ pc' = IF r.raised = "none" THEN "returned" ELSE "main_raised"
    /\ UNCHANGED <<CONFIG, today_dt, args, self, crypto, loads>>

\* main.py lines 39-41: if results: postgrez.load(...)
Load ==
    /\ pc = "returned"
    /\ ~results.none
    /\ loads' = Append(loads, [db |-> "crypto", table |-> "hist_prices",
                               data |-> results.data, columns |-> results.fields])
    /\ pc' = "exit"
    /\ UNCHANGED <<CONFIG, today_dt, args, self, crypto, fetched, resp, data, fields,
                   cleaned_data, results, exc>>

\* main.py line 39 with results None: the script ends
SkipLoad ==
    /\ pc = "returned"
    /\ results.none
    /\ pc' = "exit"
    /\ UNCHANGED <<CONFIG, today_dt, args, self, crypto, fetched, resp, data, fields,
                   cleaned_data, results, exc, loads>>

Next == NewCoindesk \/ NewPoloniex \/ RunMain \/ Load \/ SkipLoad

Spec == Init /\ [][Next]_vars

(***************************************************************************)
(* Properties of the driver and the adapters, checked under Spec.          *)
(***************************************************************************)
\* the fetch inside main() ended in a transport exception or a status
\* other than 200
FetchFailed ==
    \/ fetched.kind = "exception"
    \/ fetched.kind = "response" /\ fetched.status # 200

\* the fetch returned status 200 and the adapter's payload is a well-formed
\* empty data list: [] for Poloniex, {"bpi": []} for Coindesk
EmptyListFetched ==
    /\ fetched.kind = "response"
    /\ fetched.status = 200
    /\ \/ /\ crypto.cls = "Poloniex"
          /\ ~fetched.body.envelope /\ fetched.body.wf /\ ~fetched.body.null
          /\ fetched.body.d.k = "list" /\ fetched.body.d.items = <<>>
       \/ /\ crypto.cls = "Coindesk"
          /\ fetched.body.pylit
          /\ fetched.body.d.k = "dict" /\ fetched.body.d.bpi = << <<>> >>

\* the column names as configured, one per field, in configuration order
ConfiguredNames ==
    [i \in 1..Len(crypto.config.fields) |-> crypto.config.fields[i].mapped_name]

FirstIndex(names, x) ==
    CHOOSE i \in 1..Len(names) : names[i] = x /\ \A j \in 1..(i - 1) : names[j] # x

\* cols lists every name of names exactly once, ordered by first occurrence
DistinctInOrder(cols, names) ==
    /\ \A a, b \in 1..Len(cols) : a # b => cols[a] # cols[b]
    /\ {cols[k] : k \in 1..Len(cols)} = {names[i] : i \in 1..Len(names)}
    /\ \A a, b \in 1..Len(cols) :
          a < b => FirstIndex(names, cols[a]) < FirstIndex(names, cols[b])

\* C1: whenever the fetch ends in a transport exception or a status other
\* than 200, get_response returns None without raising, main() returns None
\* and the driver never calls postgrez.load, for either adapter.
C1_FailedFetchNoLoad ==
    FetchFailed =>
        /\ resp.none
        /\ exc = "none"
        /\ pc # "main_raised"
        /\ results.none
        /\ loads = <<>>

\* C1 witness: the driver ended after a 404 whose body held a record list
C1_Witness ==
    /\ pc = "exit"
    /\ fetched.kind = "response" /\ fetched.status = 404
    /\ fetched.body.wf /\ fetched.body.d.items # <<>>
    /\ crypto.cls = "Poloniex"
    /\ loads = <<>>

C3_RowsAligned ==
    ~results.none =>
        LET n == Len(results.fields)
        IN  /\ n >= 2
            /\ Len(results.data) = Len(cleaned_data.out)
            /\ crypto.url.args[1] = crypto.ticker
            /\ \A r \in 1..Len(results.data) :
                  /\ Len(results.data[r]) = n
                  /\ results.data[r][n - 1] = PyStrV(JoinTicker(crypto.url.args[1]))
                  /\ results.data[r][n] = PyStrV(<<crypto.source>>)
            /\ \A k \in 1..(n - 2) :
                  \E i \in 1..Len(fields) :
                      /\ fields[i].mapped_name = results.fields[k]
                      /\ \A r \in 1..Len(results.data) :
                            results.data[r][k] = cleaned_data.out[r][fields[i].name]

\* C3 witness: a ResultSet of two different rows
C3_Witness ==
    /\ ~results.none
    /\ Len(results.data) = 2
    /\ results.data[1] # results.data[2]
    /\ Len(results.fields) > 2

\* the body of a status-200 response is not a list of records for the
\* adapter that fetched it, or is an API error payload
NotRecordList ==
    /\ fetched.kind = "response"
    /\ fetched.status = 200
    /\ LET b == fetched.body
       IN  \/ /\ crypto.cls = "Poloniex"
              /\ \/ b.envelope \/ ~b.wf \/ b.null
                 \/ b.d.k # "list"
                 \/ \E j \in 1..Len(b.d.items) : ~b.d.items[j].dict
           \/ /\ crypto.cls = "Coindesk"
              /\ \/ ~b.pylit
                 \/ b.d.k # "dict"
                 \/ b.d.bpi = <<>>
                 \/ b.d.bpi # <<>> /\ \E j \in 1..Len(b.d.bpi[1]) : Len(b.d.bpi[1][j]) < 2

\* C4: for a fetched response whose body cannot be parsed into a list of
\* records, or is an API error payload, main() returns None without raising
\* and without a ResultSet.
C4_ParseFailureNoResult ==
    NotRecordList => (exc = "none" /\ pc # "main_raised" /\ results.none)

\* both halves of the pair are allowed by the configured allow-list
PairAllowed ==
    /\ "poloniex" \in DOMAIN CONFIG
    /\ Len(args.ticker) >= 2
    /\ args.ticker[1] \in DOMAIN CONFIG["poloniex"].tickers
    /\ args.ticker[2] \in CONFIG["poloniex"].tickers[args.ticker[1]]

\* C5: constructing a Poloniex adapter raises whenever the base half is not
\* a key of the allow-list or the quote half is not in that base's list and
\* succeeds when both are allowed ('BTC_ETH' succeeds, 'BTC_XYZ' raises);
\* on a raise no URL is built and main() is never reached.
C5_PairValidation ==
    args.source = "Poloniex" =>
        /\ ~PairAllowed =>
              /\ pc = "init_raised"
              /\ exc # "none"
              /\ self.url = NoUrl
              /\ crypto = NoAdapter
              /\ fetched = NoOutcome
        /\ PairAllowed =>
              /\ pc # "init_raised"
              /\ crypto = self
              /\ self.url # NoUrl
        /\ ("poloniex" \in DOMAIN CONFIG /\ args.ticker = <<"BTC", "ETH">>)
              => pc # "init_raised"
        /\ args.ticker = <<"BTC", "XYZ">> => pc = "init_raised"

\* C5 witness: 'BTC_XYZ' was refused against base BTC with quotes ETH, LTC
C5_Witness ==
    /\ pc = "init_raised"
    /\ args.ticker = <<"BTC", "XYZ">>
    /\ "poloniex" \in DOMAIN CONFIG
    /\ CONFIG["poloniex"].tickers["BTC"] = {"ETH", "LTC"}
    /\ exc = "Exception"

\* C6: constructing a Coindesk adapter never raises; its ticker is in the
\* allow-list, equal to the input when that is allowed and to USD
\* otherwise, and the URL carries it.
C6_TickerDefaulted ==
    args.source = "Coindesk" =>
        /\ pc # "init_raised"
        /\ crypto = self
        /\ self.cls = "Coindesk"
        /\ self.ticker \in {<<"USD">>, <<"ETH">>}
        /\ args.ticker \in {<<"USD">>, <<"ETH">>} => self.ticker = args.ticker
        /\ args.ticker \notin {<<"USD">>, <<"ETH">>} => self.ticker = <<"USD">>
        /\ self.url.args[1] = self.ticker

\* C6 witness: 'GBP' was replaced by 'USD'
C6_Witness ==
    /\ pc = "constructed"
    /\ args.source = "Coindesk"
    /\ args.ticker = <<"GBP">>
    /\ self.ticker = <<"USD">>

\* C8: when the configuration has no entry for the adapter's source,
\* construction raises before any URL is built or any fetch is issued, for
\* Coindesk as well as for Poloniex.
C8_MissingConfigFatal ==
    (\/ args.source = "Coindesk" /\ "coindesk" \notin DOMAIN CONFIG
     \/ args.source = "Poloniex" /\ "poloniex" \notin DOMAIN CONFIG)
    => (pc = "init_raised" /\ self.url = NoUrl /\ fetched = NoOutcome)

(***************************************************************************)
(* SpecDates: the date validation of both adapters on its own, over more   *)
(* clocks and date arguments than Spec draws.                              *)
(***************************************************************************)
DateClocks ==
    { Clock(ymd[1], ymd[2], ymd[3], tod, off) :
        ymd \in {<<2016, 3, 1>>, <<2016, 12, 31>>, <<2017, 1, 1>>, <<2017, 3, 1>>},
        tod \in {0, 36000},
        off \in {-18000, 0, 3600} }

DateArgs(now) ==
    { NoneDate, StrDate(<<>>), IntDate(20170301), StrDate(<<2017, 2>>),
      StrDate(<<2017, 2, 30>>), StrDate(<<2017, 13, 1>>), StrDate(<<2016, 0, 10>>),
      StrDate(<<1950, 6, 15>>), StrDate(<<2099, 1, 1>>),
      UnpaddedDate(<<2016, 2, 5>>), UnpaddedDate(<<2099, 1, 1>>) }
    \cup {Strftime(now.day + k) : k \in (0 - DateWindow)..DateWindow}

InitDates ==
    /\ CONFIG = <<>>
    /\ today_dt \in DateClocks
    /\ pc = "dates"
    /\ Blank

\* Coindesk.__init__ lines 116-119: the dates are stored and validated
CoindeskValidateDates ==
    /\ pc = "dates"
    /\ \E s \in DateArgs(today_dt), e \in DateArgs(today_dt) :
          \E d \in {Coindesk_validate_dates(s, e, today_dt)} :
              /\ args' = [source |-> "Coindesk", ticker |-> <<>>,
                          start_date |-> s, end_date |-> e]
              /\ self' = [NoAdapter EXCEPT !.cls = "Coindesk",
                                           !.start_date = d[1], !.end_date = d[2]]
    /\ pc' = "validated"
    /\ UNCHANGED <<CONFIG, today_dt, crypto, fetched, resp, data, fields, cleaned_data,
                   results, exc, loads>>

\* Poloniex.__init__ lines 247-250: the dates are stored and validated
PoloniexValidateDates ==
    /\ pc = "dates"
    /\ \E s \in DateArgs(today_dt), e \in DateArgs(today_dt) :
          \E d \in {Poloniex_validate_dates(s, e, today_dt)} :
              /\ args' = [source |-> "Poloniex", ticker |-> <<>>,
                          start_date |-> s, end_date |-> e]
              /\ self' = [NoAdapter EXCEPT !.cls = "Poloniex",
                                           !.start_date = d[1], !.end_date = d[2]]
    /\ pc' = "validated"
    /\ UNCHANGED <<CONFIG, today_dt, crypto, fetched, resp, data, fields, cleaned_data,
                   results, exc, loads>>

\* Poloniex._convert_dates
PoloniexConvertDates ==
    /\ pc = "validated"
    /\ self.cls = "Poloniex"
    /\ self' = [self EXCEPT !.start_date = convert_to_epoch(self.start_date, today_dt),
                            !.end_date = convert_to_epoch(self.end_date, today_dt)]
    /\ pc' = "converted"
    /\ UNCHANGED <<CONFIG, today_dt, args, crypto, fetched, resp, data, fields,
                   cleaned_data, results, exc, loads>>

NextDates == CoindeskValidateDates \/ PoloniexValidateDates \/ PoloniexConvertDates

SpecDates == InitDates /\ [][NextDates]_vars

\* the argument is a string that strptime reads as a calendar date under
\* '%Y-%m-%d'
IsDateText(d) ==
    /\ d.k = "str"
    /\ Len(d.f) = 3
    /\ d.f[1] >= 1 /\ d.f[1] <= 9999
    /\ d.f[2] >= 1 /\ d.f[2] <= 12
    /\ d.f[3] >= 1 /\ d.f[3] <= DaysInMonth(d.f[1], d.f[2])

DayOf(d) == DaysFromCivil(d.f[1], d.f[2], d.f[3])
TodayText == [k |-> "str", f |-> CivilFromDays(today_dt.day)]
YesterdayText == [k |-> "str", f |-> CivilFromDays(today_dt.day - 1)]

\* C7: for every start and end argument (missing, empty, not a string,
\* unparseable, past, today or future) date validation does not raise and
\* leaves two valid dates not later than today: a missing or unparseable
\* start becomes yesterday and end becomes today, a start later than today
\* becomes yesterday and an end later than today becomes today, and any
\* other valid date is kept unchanged.
C7_DatesValidated ==
    pc = "validated" =>
        /\ exc = "none"
        /\ IsDateText(self.start_date) /\ IsDateText(self.end_date)
        /\ DayOf(self.start_date) <= today_dt.day
        /\ DayOf(self.end_date) <= today_dt.day
        /\ ~IsDateText(args.start_date) => self.start_date = YesterdayText
        /\ ~IsDateText(args.end_date) => self.end_date = TodayText
        /\ (IsDateText(args.start_date) /\ DayOf(args.start_date) > today_dt.day)
              => self.start_date = YesterdayText
        /\ (IsDateText(args.end_date) /\ DayOf(args.end_date) > today_dt.day)
              => self.end_date = TodayText
        /\ (IsDateText(args.start_date) /\ DayOf(args.start_date) <= today_dt.day)
              => self.start_date = args.start_date
        /\ (IsDateText(args.end_date) /\ DayOf(args.end_date) <= today_dt.day)
              => self.end_date = args.end_date

\* C7 witness: start '2099-01-01' and no end became yesterday and today,
\* yesterday being the last day of February in a leap year
C7_Witness ==
    /\ pc = "validated"
    /\ self.cls = "Coindesk"
    /\ args.start_date = StrDate(<<2099, 1, 1>>)
    /\ args.end_date = NoneDate
    /\ self.start_date = StrDate(<<2016, 2, 29>>)
    /\ self.end_date = StrDate(<<2016, 3, 1>>)

(***************************************************************************)
(* SpecClean: clean_data on its own, over lists of raw records and field   *)
(* mappings.                                                               *)
(***************************************************************************)
DateValues == {Epoch10, PyStrV(<<"a", "\\", "b", "c">>), PyIntV(<<"0">>)}
CloseValues == {Float145, PyStrV(<<" ", "1", "2">>), PyStrV(<<>>)}

RawRecords ==
    {DictElem(<<>>), DictElem("close" :> None),
     DictElem(("date" :> Epoch13) @@ ("close" :> PyFloatV(<<"0", ".", "0">>))
              @@ ("junk" :> Float145))}
    \cup {DictElem("date" :> d) : d \in DateValues}
    \cup {DictElem("close" :> c) : c \in CloseValues}
    \cup {DictElem(("date" :> d) @@ ("close" :> c)) : d \in DateValues, c \in CloseValues}

FuncOptions ==
    {<<f, <<>>>> : f \in SupportedFuncs \cup {"check_bogus", "check_date"}}
    \cup {<<"check_varchar", <<VarcharLen>>>>}

FieldConfigs ==
    {<<>>, <<Field("close", "check_int", <<>>, "close")>>}
    \cup {<<Field("date", o[1], o[2], "snap_time"),
            Field("close", "check_float", <<>>, "close")>> : o \in FuncOptions}
    \cup {<<Field("date", "check_epoch", <<>>, "snap_time"),
            Field("close", o[1], o[2], "close")>> : o \in FuncOptions}

InitClean ==
    /\ CONFIG = <<>>
    /\ today_dt = Clock(2017, 3, 1, 0, 0)
    /\ pc = "clean"
    /\ args = NoArgs
    /\ self = NoAdapter
    /\ crypto = NoAdapter
    /\ fetched = NoOutcome
    /\ resp = NoResp
    /\ data \in {[none |-> FALSE, d |-> ListData(s)] : s \in SeqsUpTo(RawRecords, MaxRecords)}
    /\ fields \in FieldConfigs
    /\ cleaned_data = NotCleaned
    /\ results = NoResult
    /\ exc = "none"
    /\ loads = <<>>

\* cleaned_data = clean_data(data, fields)
CleanData ==
    /\ pc = "clean"
    /\ \E r \in {clean_data(data.d, fields)} :
          /\ cleaned_data' = Called(r)
          /\ exc' = r.raised
    /\ pc' = "cleaned"
    /\ UNCHANGED <<CONFIG, today_dt, args, self, crypto, fetched, resp, data, fields,
                   results, loads>>

NextClean == CleanData

SpecClean == InitClean /\ [][NextClean]_vars

\* the raw record m has no value for var, or one that tests false
IsFalsy(m, var) ==
    \/ var \notin DOMAIN m
    \/ m[var] = None
    \/ m[var] = PyStrV(<<>>)
    \/ m[var] = PyIntV(<<"0">>)
    \/ m[var] = PyFloatV(<<"0", ".", "0">>)

Supported(func) ==
    func \in {"check_int", "check_float", "check_varchar", "check_text", "do_none",
              "check_epoch"}

\* C9: clean_data returns one cleaned record per raw record, in input
\* order, each with exactly the keys of the field mapping; a field whose
\* raw value is absent or falsy is None and no cleaning function is invoked
\* for it.
C9_OneRecordPerRaw ==
    (pc = "cleaned" /\ cleaned_data.raised = "none") =>
        LET items == data.d.items
            out == cleaned_data.out
            calls == cleaned_data.calls
        IN  /\ Len(out) = Len(items)
            /\ \A i \in 1..Len(out) :
                  /\ DOMAIN out[i] = {fields[j].name : j \in 1..Len(fields)}
                  /\ \A j \in 1..Len(fields) :
                        LET var == fields[j].name
                            n == Cardinality({c \in 1..Len(calls) :
                                                 calls[c][1] = i /\ calls[c][2] = var})
                        IN  /\ IsFalsy(items[i].m, var) => (out[i][var] = None /\ n = 0)
                            /\ ~IsFalsy(items[i].m, var) =>
                                  /\ n = 1
                                  /\ fields[j].cleaning_func = "do_none"
                                        => out[i][var] = items[i].m[var]
            /\ \A a, b \in 1..Len(calls) : a < b => calls[a][1] <= calls[b][1]

\* C9 witness: two records cleaned, the first with an unmapped raw key and
\* a falsy value, the second with a value that a cleaning function saw
C9_Witness ==
    /\ pc = "cleaned"
    /\ cleaned_data.raised = "none"
    /\ Len(cleaned_data.out) = 2
    /\ Len(fields) = 2
    /\ "junk" \in DOMAIN data.d.items[1].m
    /\ data.d.items[1].m["close"] = PyFloatV(<<"0", ".", "0">>)
    /\ cleaned_data.out[1]["close"] = None
    /\ \E c \in 1..Len(cleaned_data.calls) : cleaned_data.calls[c][1] = 2

\* what one field of one record is cleaned to, whatever its siblings hold
CleanedAlone(spec, m) ==
    IF IsFalsy(m, spec.name) \/ ~Supported(spec.cleaning_func) THEN None
    ELSE CallCleaningFunc(spec.cleaning_func, m[spec.name], spec.args).v

\* every field of every record is cleaned on its own, and a value that
\* cannot be coerced is None
FieldsCleanedAlone ==
    LET items == data.d.items
        out == cleaned_data.out
    IN  /\ Len(out) = Len(items)
        /\ \A i \in 1..Len(out) : \A j \in 1..Len(fields) :
              LET v == out[i][fields[j].name]
                  f == fields[j].cleaning_func
              IN  /\ v = CleanedAlone(fields[j], items[i].m)
                  /\ f = "check_int" => v.t \in {"none", "int"}
                  /\ f = "check_float" => v.t \in {"none", "float"}
                  /\ f = "check_epoch" => v.t \in {"none", "str"}
                  /\ (f = "check_varchar" /\ fields[j].args = <<>>) => v = None

\* some record holds a truthy value for a field whose cleaning function is
\* not one of the six
UnsupportedFuncUsed ==
    \E i \in 1..Len(data.d.items), j \in 1..Len(fields) :
        /\ ~Supported(fields[j].cleaning_func)
        /\ ~IsFalsy(data.d.items[i].m, fields[j].name)

\* C10 as stated: for every raw record and every field mapping clean_data
\* does not raise; a field that cannot be coerced, that lacks the arguments
\* its function needs or whose function is not one of the six becomes None,
\* and every sibling field and every other record is cleaned as otherwise.
C10_Original ==
    pc = "cleaned" => (cleaned_data.raised = "none" /\ FieldsCleanedAlone)

\* C10 amended: for every field mapping whose cleaning functions are among
\* the six supported, clean_data does not raise, a field that cannot be
\* coerced or lacks the arguments its function needs becomes None, and
\* every sibling field and every other record is cleaned as otherwise;
\* clean_data raises exactly when a record holds a truthy value for a field
\* whose cleaning function is not one of the six.
C10_CoercionConfined ==
    pc = "cleaned" =>
        /\ (\A j \in 1..Len(fields) : Supported(fields[j].cleaning_func))
              => cleaned_data.raised = "none"
        /\ cleaned_data.raised = "none" => FieldsCleanedAlone
        /\ cleaned_data.raised # "none" <=> UnsupportedFuncUsed

\* C10 witness: check_int made None of a string that is no number while
\* the sibling field and the other record kept their cleaned values
C10_Witness ==
    /\ pc = "cleaned"
    /\ cleaned_data.raised = "none"
    /\ Len(cleaned_data.out) = 2
    /\ Len(fields) = 2
    /\ fields[1].cleaning_func = "check_int"
    /\ data.d.items[1].m = (("date" :> PyStrV(<<"a", "\\", "b", "c">>)) @@ ("close" :> Float145))
    /\ cleaned_data.out[1]["date"] = None
    /\ cleaned_data.out[1]["close"] = Float145
    /\ cleaned_data.out[2]["date"] = Epoch10

(***************************************************************************)
(* SpecCleaning: one call of check_epoch or check_varchar, over the values *)
(* and arguments a field can hold.                                         *)
(***************************************************************************)
\* n decimal digits, the first of them lead
EpochDigits(n, lead) ==
    [i \in 1..n |-> IF i = 1 THEN lead ELSE DigitChars[((7 * i) % 10) + 1]]

EpochValues ==
    UNION { LET d == EpochDigits(n, lead)
            IN  { PyIntV(d), PyIntV(<<"-">> \o d), PyStrV(d), PyStrV(<<"-">> \o d),
                  PyStrV(<<" ", "+">> \o d \o <<" ">>), PyFloatV(d \o <<".", "7">>) } :
            n \in 1..MaxDigits, lead \in {"1", "9"} }
    \cup { None, PyStrV(<<>>), PyStrV(<<"a", "b">>), PyStrV(<<"1", ".", "5">>),
           PyIntV(<<"0">>), Epoch10, Epoch13, PyIntV(Chars10 \o <<"9", "9", "9">>),
           PyIntV(Chars10 \o <<"0", "0", "0">>),
           PyIntV(<<"-", "1", "2", "3", "4", "5", "6", "7", "8", "9">>),
           PyIntV(<<"-">> \o Chars10), PyIntV(<<"-">> \o Chars10 \o <<"1", "2", "3">>) }

VarcharValues ==
    {PyStrV(s) : s \in SeqsUpTo({"a", "b", "\\"}, MaxStrLen)}
    \cup {Epoch10, Float145, PyStrV(Chars10)}

CleaningCalls ==
    {[func |-> "check_epoch", val |-> v, args |-> <<>>] : v \in EpochValues}
    \cup {[func |-> "check_varchar", val |-> v, args |-> a] :
             v \in VarcharValues, a \in {<<0>>, <<VarcharLen>>}}

InitCleaning ==
    /\ CONFIG = <<>>
    /\ today_dt = Clock(2017, 3, 1, 0, 0)
    /\ pc = "call"
    /\ args \in CleaningCalls
    /\ self = NoAdapter
    /\ crypto = NoAdapter
    /\ fetched = NoOutcome
    /\ resp = NoResp
    /\ data = NoData
    /\ fields = <<>>
    /\ cleaned_data = NotCleaned
    /\ results = None
    /\ exc = "none"
    /\ loads = <<>>

\* DataCleaning.check_epoch(val=val, args=args)
CallCheckEpoch ==
    /\ pc = "call"
    /\ args.func = "check_epoch"
    /\ results' = check_epoch(args.val, args.args)
    /\ pc' = "called"
    /\ UNCHANGED <<CONFIG, today_dt, args, self, crypto, fetched, resp, data, fields,
                   cleaned_data, exc, loads>>

\* DataCleaning.check_varchar(val=val, args=args)
CallCheckVarchar ==
    /\ pc = "call"
    /\ args.func = "check_varchar"
    /\ results' = check_varchar(args.val, args.args)
    /\ pc' = "called"
    /\ UNCHANGED <<CONFIG, today_dt, args, self, crypto, fetched, resp, data, fields,
                   cleaned_data, exc, loads>>

NextCleaning == CallCheckEpoch \/ CallCheckVarchar

SpecCleaning == InitCleaning /\ [][NextCleaning]_vars

\* the value is an integer or a string int() accepts
CoercibleToInt(v) == v.t = "int" \/ (v.t = "str" /\ ParseIntText(v.s).ok)

\* the digits, with the sign, of the integer the value is or is coerced to
IntText(v) == IF v.t = "int" THEN v.s ELSE ParseIntText(v.s).v.s

DigitCount(s) == Cardinality({i \in 1..Len(s) : IsDigit(s[i])})

\* the digits of the next natural number
RECURSIVE SuccDigits(_)
SuccDigits(d) ==
    IF d = <<>> THEN <<"1">>
    ELSE LET front == SubSeq(d, 1, Len(d) - 1)
             last == d[Len(d)]
         IN  IF last = "9" THEN SuccDigits(front) \o <<"0">>
             ELSE front \o <<DigitChars[DigitVal(last) + 2]>>

\* s // 1000 for the text s of an integer of at least four digits
FloorDiv1000(s) ==
    LET neg == Head(s) = "-"
        mag == IF neg THEN Tail(s) ELSE s
        q == SubSeq(mag, 1, Len(mag) - 3)
        exact == SubSeq(mag, Len(mag) - 2, Len(mag)) = <<"0", "0", "0">>
    IN  IF ~neg THEN q ELSE <<"-">> \o (IF exact THEN q ELSE SuccDigits(q))

\* C11: check_epoch returns None for every integer, or string coercible
\* to an integer, whose number of decimal digits (the sign is not a digit)
\* is neither 10 nor 13, a formatted timestamp 'YYYY-MM-DD HH:MM' for every
\* 10-digit value, and for every 13-digit value ms what it returns for the
\* 10-digit value ms // 1000.
C11_EpochByDigitCount ==
    (pc = "called" /\ args.func = "check_epoch" /\ CoercibleToInt(args.val)) =>
        LET n == DigitCount(IntText(args.val))
        IN  /\ n \notin {10, 13} => results = None
            /\ n = 10 => (results.t = "str" /\ Len(results.s) = 16)
            /\ n = 13 =>
                  results = check_epoch(PyIntV(FloorDiv1000(IntText(args.val))), <<>>)

\* C12: for every string longer than the configured bound, backslashes or
\* not, check_varchar returns a string of exactly the bound's length with
\* no backslash in it: the first characters of the string without its
\* backslashes.
C12_VarcharExactLength ==
    (/\ pc = "called"
     /\ args.func = "check_varchar"
     /\ args.val.t = "str"
     /\ Len(args.val.s) > args.args[1]) =>
        /\ results.t = "str"
        /\ Len(results.s) = args.args[1]
        /\ \A i \in 1..Len(results.s) : results.s[i] # "\\"
        /\ results.s = Slice0(StripBackslashes(args.val.s), args.args[1])

(***************************************************************************)
(* The date range and the ticker of a constructed adapter, checked under   *)
(* Spec.                                                                   *)
(***************************************************************************)
\* C13: after construction of either adapter, whatever start and end the
\* caller gave, start_date is not later than end_date; for Poloniex the
\* start epoch is not greater than the end epoch.
C13_DateRangeOrdered ==
    pc = "constructed" =>
        IF crypto.cls = "Coindesk"
        THEN DayOf(crypto.start_date) <= DayOf(crypto.end_date)
        ELSE crypto.start_date.f[1] <= crypto.end_date.f[1]

\* C14: whenever Poloniex construction succeeds the ticker has exactly two
\* segments, base a key of the configured allow-list and quote in the
\* list of that base, and that ticker is the one in the request URL and in
\* every output row; a ticker of more than two segments is refused.
C14_TickerIsAllowedPair ==
    /\ crypto.cls = "Poloniex" =>
          /\ Len(crypto.ticker) = 2
          /\ crypto.ticker[1] \in DOMAIN crypto.config.tickers
          /\ crypto.ticker[2] \in crypto.config.tickers[crypto.ticker[1]]
          /\ crypto.url.args[1] = <<crypto.ticker[1], crypto.ticker[2]>>
          /\ ~results.none =>
                \A r \in 1..Len(results.data) :
                    results.data[r][Len(results.data[r]) - 1]
                        = PyStrV(<<crypto.ticker[1], "_", crypto.ticker[2]>>)
    /\ (args.source = "Poloniex" /\ Len(args.ticker) > 2) => pc = "init_raised"

=============================================================================
